---- MODULE Spec2Model ----
(***************************************************************************)
(* EdgeTX telemetry log -> iNAV mission converter.                         *)
(*                                                                         *)
(* Two revisions of the converter are modelled side by side:               *)
(*   "general"  src/inav_missions.py  (spacing search inside process_logs, *)
(*              global coordinate check, 500 km jump ceiling)              *)
(*   "bounded"  src/inav-missions.py  (spacing search inside index,        *)
(*              continental bounding box, 50 km jump ceiling)              *)
(*                                                                         *)
(* Coordinates are integers in metres of great-circle arc, that is         *)
(* degrees * R * pi / 180 with R = 6371000 (1 degree = 111194.93 m).       *)
(* Every sample that passes the coordinate checks lies on one meridian,    *)
(* where the haversine formula (dlambda = 0) reduces to R * |dphi|, the    *)
(* difference of the two latitudes in metres of arc.                       *)
(* Altitudes are integers in decimetres, so that int() truncates.          *)
(***************************************************************************)
EXTENDS Integers, Sequences, FiniteSets, TLC

VARIABLES variant, df, spacing_m, max_wps, manual_alt_m,
          current_spacing, waypoints, pc, response,
          pass_spacing, kept, pass_counts

vars == <<variant, df, spacing_m, max_wps, manual_alt_m,
          current_spacing, waypoints, pc, response,
          pass_spacing, kept, pass_counts>>

(***************************************************************************)
(* Bounds of the model.                                                    *)
(***************************************************************************)
MaxTrack == 4
MaxMixed == 3
MaxAny == 2

(***************************************************************************)
(* Program constants, in metres (of arc, for coordinates).                 *)
(***************************************************************************)
LAT_LIMIT == 10007543
LON_LIMIT == 20015086
LAT_MIN == 2712746
LAT_MAX == 5491290
LON_MIN == -13899365
LON_MAX == -7442785
INITIAL_SPACING == 300
MAX_WAYPOINTS == 100
MAX_DISTANCE_FROM_START_KM == 50
JUMP_LIMIT_M == 500000
SPACING_CEILING == 5000
SPACING_STEP == 10
BOUNDED_SPACING_STEP == 50
DEFAULT_SPEED_CMS == 694

\* Metres of arc in one degree, R * pi / 180 rounded, for placing the samples.
DEGREE == 111195

Abs(x) == IF x < 0 THEN -x ELSE x

(***************************************************************************)
(* Floats: a number, NaN, or the failure of float() (an exception).        *)
(***************************************************************************)
Num(n) == [k |-> "num", v |-> n]
NaN == [k |-> "nan", v |-> 0]
Err == [k |-> "err", v |-> 0]
None == [k |-> "none", v |-> 0]

\* A whitespace-separated token of a cell, or a whole cell: its text, and
\* whether that text spells a number (of value v), nan, or neither.
\* pandas hands an empty cell over as the float NaN, whose str() is "nan".
Text(t, f, n) == [txt |-> t, form |-> f, v |-> n]

\* float(x): a number, nan (float("nan") and float(nan) raise nothing), or
\* ValueError for any other text.
Float(x) ==
    CASE x.form = "number" -> Num(x.v)
      [] x.form = "nan" -> NaN
      [] OTHER -> Err

\* gps_str in [...]: the sentinel spellings of "no fix".
GeneralSentinels == { <<"0">>, <<"0", "0">>, <<"0.0", "0.0">> }
BoundedSentinels == { <<"0">> }

Texts(gps) == [i \in 1..Len(gps) |-> gps[i].txt]

\* Comparisons with NaN are all false.
IsZero(f) == f.k = "num" /\ f.v = 0
Between(lo, f, hi) == f.k = "num" /\ lo <= f.v /\ f.v <= hi

Skip == [ok |-> FALSE, lat |-> 0, lon |-> 0, alt |-> None]
Sample(lat, lon, alt) == [ok |-> TRUE, lat |-> lat, lon |-> lon, alt |-> alt]

\* alt = manual_alt_m if manual_alt_m is not None else float(row['Alt(m)'])
Altitude(row, manual) == IF manual.k # "none" THEN manual ELSE Float(row.Alt)

\* Mutant of GlobalCoordsOk: the two range tests joined by "or".
GlobalCoordsOkEither(lat, lon) ==
    /\ ~(IsZero(lat) /\ IsZero(lon))
    /\ \/ Between(-LAT_LIMIT, lat, LAT_LIMIT)
       \/ Between(-LON_LIMIT, lon, LON_LIMIT)

\* Sanity Check: Global Coordinates
GlobalCoordsOk(lat, lon) ==
    /\ ~(IsZero(lat) /\ IsZero(lon))
    /\ Between(-LAT_LIMIT, lat, LAT_LIMIT)
    /\ Between(-LON_LIMIT, lon, LON_LIMIT)

\* The continental bounding box of the bounded revision.
BoxCoordsOk(lat, lon) ==
    /\ Between(LAT_MIN, lat, LAT_MAX)
    /\ Between(LON_MIN, lon, LON_MAX)

\* The try-body of one row up to and including the altitude, general revision.
\* Any exception (float() of non-numeric text) skips the row.
GeneralParseRow(row, manual) ==
    LET gps == row.GPS IN
    IF gps = <<>> \/ Texts(gps) \in GeneralSentinels THEN Skip
    ELSE IF Len(gps) < 2 THEN Skip
    ELSE IF Float(gps[1]).k = "err" \/ Float(gps[2]).k = "err" THEN Skip
    ELSE IF ~GlobalCoordsOk(Float(gps[1]), Float(gps[2])) THEN Skip
    ELSE IF Altitude(row, manual).k = "err" THEN Skip
    ELSE Sample(Float(gps[1]).v, Float(gps[2]).v, Altitude(row, manual))

\* The same for the bounded revision: coords[1] of a one-token cell raises
\* IndexError, the altitude is parsed before the box is checked.
BoundedParseRow(row, manual) ==
    LET gps == row.GPS IN
    IF gps = <<>> \/ Texts(gps) \in BoundedSentinels THEN Skip
    ELSE IF Len(gps) < 2 THEN Skip
    ELSE IF Float(gps[1]).k = "err" \/ Float(gps[2]).k = "err" THEN Skip
    ELSE IF Altitude(row, manual).k = "err" THEN Skip
    ELSE IF ~BoxCoordsOk(Float(gps[1]), Float(gps[2])) THEN Skip
    ELSE Sample(Float(gps[1]).v, Float(gps[2]).v, Altitude(row, manual))

ParseRow(v, row, manual) ==
    IF v = "general" THEN GeneralParseRow(row, manual) ELSE BoundedParseRow(row, manual)

\* haversine on one meridian: a = sin(dphi/2)^2, 2R atan2(sqrt a, sqrt(1-a)) = R|dphi|.
Haversine(lat1, lon1, lat2, lon2) == Abs(lat2 - lat1)

\* Distance filtering: the sensor-jump ceiling of each revision.
JumpCeiling(v) ==
    IF v = "general" THEN JUMP_LIMIT_M ELSE MAX_DISTANCE_FROM_START_KM * 1000

\* Mutant of IsJump: the ceiling taken for kilometres and converted again.
IsJumpUnitSlip(v, start_pos, lat, lon) ==
    Haversine(start_pos[1], start_pos[2], lat, lon) > JumpCeiling(v) * 1000

IsJump(v, start_pos, lat, lon) ==
    Haversine(start_pos[1], start_pos[2], lat, lon) > JumpCeiling(v)

\* Mutant of FarEnough: the comparison inverted.
FarEnoughInverted(last_wp_pos, lat, lon, spacing) ==
    Haversine(last_wp_pos[1], last_wp_pos[2], lat, lon) < spacing

\* Waypoint Spacing
FarEnough(last_wp_pos, lat, lon, spacing) ==
    Haversine(last_wp_pos[1], last_wp_pos[2], lat, lon) >= spacing

\* The locals of one pass over the rows; <<>> stands for None.
PassStart == [waypoints |-> <<>>, start_pos |-> <<>>, last_wp_pos |-> <<>>, kept |-> <<>>]

Keep(st, i, s) ==
    [waypoints |-> Append(st.waypoints, <<s.lat, s.lon, s.alt>>),
     start_pos |-> IF st.start_pos = <<>> THEN <<s.lat, s.lon>> ELSE st.start_pos,
     last_wp_pos |-> <<s.lat, s.lon>>,
     kept |-> Append(st.kept, i)]

\* Mutant of RowStep: the distance is measured from the last sample seen,
\* not from the last waypoint kept.
RowStepLastSeen(v, row, i, spacing, manual, st) ==
    LET s == ParseRow(v, row, manual) IN
    IF ~s.ok THEN st
    ELSE IF st.start_pos = <<>> THEN Keep(st, i, s)
    ELSE IF IsJump(v, st.start_pos, s.lat, s.lon) THEN st
    ELSE IF FarEnough(st.last_wp_pos, s.lat, s.lon, spacing) THEN Keep(st, i, s)
    ELSE [st EXCEPT !.last_wp_pos = <<s.lat, s.lon>>]

\* The body of the for loop, for row i.
RowStep(v, row, i, spacing, manual, st) ==
    LET s == ParseRow(v, row, manual) IN
    IF ~s.ok THEN st
    ELSE IF st.start_pos = <<>> THEN Keep(st, i, s)
    ELSE IF IsJump(v, st.start_pos, s.lat, s.lon) THEN st
    ELSE IF FarEnough(st.last_wp_pos, s.lat, s.lon, spacing) THEN Keep(st, i, s)
    ELSE st

\* The for loop over rows lo..hi, entered with the locals st. The rows are
\* visited in order; the range is halved, and the locals after the first half
\* are computed (the test on them is always true) before the second half is
\* entered, only to keep the evaluation shallow.
RECURSIVE ScanRows(_, _, _, _, _, _, _)
ScanRows(v, rows, lo, hi, spacing, manual, st) ==
    IF lo > hi THEN st
    ELSE IF lo = hi THEN RowStep(v, rows[lo], lo, spacing, manual, st)
    ELSE LET mid == (lo + hi) \div 2
             left == ScanRows(v, rows, lo, mid, spacing, manual, st)
         IN IF Len(left.kept) >= 0
            THEN ScanRows(v, rows, mid + 1, hi, spacing, manual, left)
            ELSE left

\* One decimation pass: for _, row in df.iterrows().
DecimationPass(v, rows, spacing, manual) == 
    ScanRows(v, rows, 1, Len(rows), spacing, manual, PassStart)

(***************************************************************************)
(* The rows a log is drawn from.                                           *)
(***************************************************************************)
\* The meridian 100 W and the base latitude 27 N, inside the bounding box.
MERIDIAN == -100 * DEGREE
BASE_LAT == 27 * DEGREE

Number(n) == Text("n", "number", n)
GpsAt(lat, lon) == << Number(lat), Number(lon) >>
Row(gps, alt) == [GPS |-> gps, Alt |-> alt]

\* A fix o metres north of the base latitude, with a numeric altitude cell.
Fix(o, a) == Row(GpsAt(BASE_LAT + o, MERIDIAN), Number(a))

TrackRows == { Fix(0, 1205), Fix(50, 1210), Fix(400, 1342), Fix(5005, 998), Fix(9000, -5) }
CoreRows == { Fix(400, 1342) }

\* Far fixes: 60 km north of the base, and on the equator (3000 km south).
FarRows == { Fix(60000, 1500), Row(GpsAt(0, MERIDIAN), Number(20)) }

\* Rows without a usable position.
NoFixRows ==
    { Row(<< Text("0", "number", 0), Text("0", "number", 0) >>, Number(1205)),
      Row(<< Text("0.00", "number", 0), Text("0.00", "number", 0) >>, Number(1205)),
      Row(<< Text("nan", "nan", 0) >>, Number(1205)),
      Row(<< Text("--", "text", 0), Text("--", "text", 0) >>, Number(1205)),
      Row(<< Text("200", "number", 200 * DEGREE), Text("0", "number", 0) >>, Number(1205)),
      Row(GpsAt(BASE_LAT, 200 * DEGREE), Number(1205)) }

\* Rows with a usable position and an altitude cell that is empty or text.
NoAltRows ==
    { Row(GpsAt(BASE_LAT + 400, MERIDIAN), Text("nan", "nan", 0)),
      Row(GpsAt(BASE_LAT + 5005, MERIDIAN), Text("n/a", "text", 0)) }

\* The rows of the mixed logs, and every row of the model.
MixedRows ==
    CoreRows \cup FarRows \cup NoAltRows
    \cup { Row(<< Text("0", "number", 0), Text("0", "number", 0) >>, Number(1205)),
            Row(<< Text("200", "number", 200 * DEGREE), Text("0", "number", 0) >>, Number(1205)) }
AllRows == TrackRows \cup FarRows \cup NoFixRows \cup NoAltRows

\* n fixes in a line, step metres apart.
EvenTrack(n, step) == [i \in 1..n |-> Fix((i - 1) * step, 1205)]

\* Form values after unit conversion: spacing, max_wps, custom_alt.
Config(s, m, a) == [spacing_m |-> s, max_wps |-> m, manual_alt_m |-> a]
BoundedConfig(a) == Config(INITIAL_SPACING, MAX_WAYPOINTS, a)

TrackConfigs ==
    { Config(4990, 1, None), Config(5000, 1, None),
      Config(5000, -1, None), Config(300, 100, None) }
MixedConfigs ==
    { Config(300, 100, None), Config(300, 100, Num(800)),
      Config(5000, -1, None), Config(5000, 1, None) }

\* The long logs: one the general search has to widen for, and one of one
\* sample more than MAX_WAYPOINTS at the initial spacing.
LongRequests ==
    { << EvenTrack(200, 10), Config(10, 20, None) >>,
      << EvenTrack(101, 300), Config(300, 100, None) >> }

Pending == [kind |-> "pending", msg |-> "", items |-> <<>>]
Flash(m) == [kind |-> "flash", msg |-> m, items |-> <<>>]
File(items) == [kind |-> "file", msg |-> "", items |-> items]

\* A request: a revision, the uploaded log and the form values.
Request(v, rows, c) ==
    /\ variant = v
    /\ df = rows
    /\ spacing_m = c.spacing_m
    /\ max_wps = c.max_wps
    /\ manual_alt_m = c.manual_alt_m

Init ==
    /\ \/ \E k \in 0..MaxTrack : \E rows \in [1..k -> TrackRows] :
             \/ \E c \in TrackConfigs : Request("general", rows, c)
             \/ Request("bounded", rows, BoundedConfig(None))
       \/ \E k \in 0..MaxMixed : \E rows \in [1..k -> MixedRows] :
             \/ \E c \in MixedConfigs : Request("general", rows, c)
             \/ \E a \in {None, Num(800)} : Request("bounded", rows, BoundedConfig(a))
       \/ \E k \in 0..MaxAny : \E rows \in [1..k -> AllRows] :
             \/ \E c \in MixedConfigs : Request("general", rows, c)
             \/ \E a \in {None, Num(800)} : Request("bounded", rows, BoundedConfig(a))
       \/ \E r \in LongRequests :
             \/ Request("general", r[1], r[2])
             \/ Request("bounded", r[1], BoundedConfig(None))
    /\ current_spacing = spacing_m
    /\ waypoints = <<>>
    /\ pc = "search"
    /\ response = Pending
    /\ pass_spacing = spacing_m
    /\ kept = <<>>
    /\ pass_counts = <<>>

(***************************************************************************)
(* Serialization.                                                          *)
(***************************************************************************)
\* int(alt) of a float in decimetres: truncation toward zero.
IntTrunc(a) == IF a >= 0 THEN a \div 10 ELSE -((-a) \div 10)

\* int(alt) raises ValueError on NaN.
Serializable(wps) == \A i \in 1..Len(wps) : wps[i][3].k = "num"

\* One missionitem. "%.7f" resolves 1e-7 degree (0.011 m), finer than the
\* coordinate grid of the model, so lat and lon are written without loss.
MissionItem(i, wp, p3) ==
    [no |-> i, action |-> "WAYPOINT", lat |-> wp[1], lon |-> wp[2],
     alt |-> IntTrunc(wp[3].v), parameter1 |-> DEFAULT_SPEED_CMS,
     parameter2 |-> "0", parameter3 |-> p3, flag |-> "0"]

MissionItems(wps, p3) == [i \in 1..Len(wps) |-> MissionItem(i, wps[i], p3)]

(***************************************************************************)
(* The general revision: process_logs and its caller.                      *)
(***************************************************************************)
ThisPass == DecimationPass(variant, df, current_spacing, manual_alt_m)

\* What a pass leaves behind: the waypoints, and for the properties the rows
\* kept, the spacing of the pass and the length of every pass so far.
Scanned ==
    /\ waypoints' = ThisPass.waypoints
    /\ kept' = ThisPass.kept
    /\ pass_spacing' = current_spacing
    /\ pass_counts' = Append(pass_counts, Len(ThisPass.waypoints))
    /\ pc' = "scanned"
    /\ UNCHANGED <<variant, df, spacing_m, max_wps, manual_alt_m, current_spacing, response>>

\* One turn of while True: waypoints = [] ... for _, row in df.iterrows()
Pass ==
    /\ pc = "search" /\ variant = "general"
    /\ Scanned

\* Mutants of PastCeiling: the ceiling reached rather than exceeded, and the
\* ceiling one step too high.
PastCeilingReached(spacing) == spacing >= SPACING_CEILING
PastCeilingLate(spacing) == spacing > SPACING_CEILING + SPACING_STEP

\* if len(waypoints) <= max_wps or current_spacing > 5000: return waypoints
Fits(n, limit) == n <= limit
PastCeiling(spacing) == spacing > SPACING_CEILING

\* if not waypoints: return []
ReturnEmpty ==
    /\ pc = "scanned" /\ variant = "general"
    /\ waypoints = <<>>
    /\ pc' = "returned"
    /\ UNCHANGED <<variant, df, spacing_m, max_wps, manual_alt_m, current_spacing,
                   waypoints, response, pass_spacing, kept, pass_counts>>

ReturnWaypoints ==
    /\ pc = "scanned" /\ variant = "general"
    /\ waypoints # <<>>
    /\ Fits(Len(waypoints), max_wps) \/ PastCeiling(current_spacing)
    /\ pc' = "returned"
    /\ UNCHANGED <<variant, df, spacing_m, max_wps, manual_alt_m, current_spacing,
                   waypoints, response, pass_spacing, kept, pass_counts>>

\* current_spacing += 10, and the while loop runs the next pass
Widen ==
    /\ pc = "scanned" /\ variant = "general"
    /\ waypoints # <<>>
    /\ ~(Fits(Len(waypoints), max_wps) \/ PastCeiling(current_spacing))
    /\ current_spacing' = current_spacing + SPACING_STEP
    /\ pc' = "search"
    /\ UNCHANGED <<variant, df, spacing_m, max_wps, manual_alt_m,
                   waypoints, response, pass_spacing, kept, pass_counts>>

\* if not wps: flash("Processing Error: No valid GPS telemetry found...")
FlashNoTelemetry ==
    /\ pc = "returned" /\ variant = "general"
    /\ waypoints = <<>>
    /\ response' = Flash("No valid GPS telemetry found")
    /\ pc' = "done"
    /\ UNCHANGED <<variant, df, spacing_m, max_wps, manual_alt_m, current_spacing,
                   waypoints, pass_spacing, kept, pass_counts>>

\* 4. XML Generation, 5. Serve the file in-memory
SendMission ==
    /\ pc = "returned" /\ variant = "general"
    /\ waypoints # <<>>
    /\ Serializable(waypoints)
    /\ response' = File(MissionItems(waypoints, "0"))
    /\ pc' = "done"
    /\ UNCHANGED <<variant, df, spacing_m, max_wps, manual_alt_m, current_spacing,
                   waypoints, pass_spacing, kept, pass_counts>>

\* except Exception as e: flash(f"Error Processing File: {str(e)}")
FlashError ==
    /\ pc = "returned" /\ variant = "general"
    /\ waypoints # <<>>
    /\ ~Serializable(waypoints)
    /\ response' = Flash("Error Processing File")
    /\ pc' = "done"
    /\ UNCHANGED <<variant, df, spacing_m, max_wps, manual_alt_m, current_spacing,
                   waypoints, pass_spacing, kept, pass_counts>>

(***************************************************************************)
(* The bounded revision: the search loop of index around process_logs.     *)
(***************************************************************************)
\* wps = process_logs(df, spacing, manual_alt)
BoundedPass ==
    /\ pc = "search" /\ variant = "bounded"
    /\ Scanned

\* if len(wps) <= MAX_WAYPOINTS: break
BoundedBreak ==
    /\ pc = "scanned" /\ variant = "bounded"
    /\ Fits(Len(waypoints), MAX_WAYPOINTS)
    /\ pc' = "returned"
    /\ UNCHANGED <<variant, df, spacing_m, max_wps, manual_alt_m, current_spacing,
                   waypoints, response, pass_spacing, kept, pass_counts>>

\* spacing += 50
BoundedWiden ==
    /\ pc = "scanned" /\ variant = "bounded"
    /\ ~Fits(Len(waypoints), MAX_WAYPOINTS)
    /\ current_spacing' = current_spacing + BOUNDED_SPACING_STEP
    /\ pc' = "search"
    /\ UNCHANGED <<variant, df, spacing_m, max_wps, manual_alt_m,
                   waypoints, response, pass_spacing, kept, pass_counts>>

\* The mission is built from wps whatever its length.
BoundedSendMission ==
    /\ pc = "returned" /\ variant = "bounded"
    /\ Serializable(waypoints)
    /\ response' = File(MissionItems(waypoints, "1"))
    /\ pc' = "done"
    /\ UNCHANGED <<variant, df, spacing_m, max_wps, manual_alt_m, current_spacing,
                   waypoints, pass_spacing, kept, pass_counts>>

\* except Exception as e: return f"Error: {str(e)}"
BoundedError ==
    /\ pc = "returned" /\ variant = "bounded"
    /\ ~Serializable(waypoints)
    /\ response' = [kind |-> "text", msg |-> "Error", items |-> <<>>]
    /\ pc' = "done"
    /\ UNCHANGED <<variant, df, spacing_m, max_wps, manual_alt_m, current_spacing,
                   waypoints, pass_spacing, kept, pass_counts>>

Next ==
    \/ Pass
    \/ ReturnEmpty
    \/ ReturnWaypoints
    \/ Widen
    \/ FlashNoTelemetry
    \/ SendMission
    \/ FlashError
    \/ BoundedPass
    \/ BoundedBreak
    \/ BoundedWiden
    \/ BoundedSendMission
    \/ BoundedError

Spec == Init /\ [][Next]_vars

(***************************************************************************)
(* Vocabulary of the properties.                                           *)
(***************************************************************************)
Rows == 1..Len(df)
Parsed(i) == ParseRow(variant, df[i], manual_alt_m)
UsableRows == { i \in Rows : Parsed(i).ok }
Returned == pc \in {"returned", "done"}
PassesRun == Len(pass_counts)

\* C1 (as claimed): a returned list longer than max_wps occurs only when the
\* spacing of the returned pass is above the 5000 m ceiling.
C1_OverBudgetOnlyPastCeiling ==
    Returned => (Len(waypoints) <= max_wps \/ pass_spacing > 5000)

\* C1 (amended): a returned list is within max_wps, or was produced by a pass
\* whose spacing is above the 5000 m ceiling, or is the empty list (which is
\* returned at once, also when max_wps is negative).
C1_OverBudgetOnlyPastCeilingOrEmpty ==
    Returned => (Len(waypoints) <= max_wps \/ pass_spacing > 5000 \/ waypoints = <<>>)

\* C1 witness: the search gave up past the ceiling and returned a list over budget.
C1_Witness ==
    /\ pc = "returned" /\ variant = "general"
    /\ Len(pass_counts) > 1
    /\ Len(waypoints) > max_wps /\ waypoints # <<>>

\* C2 (as claimed): with baseSpacing <= 5000 the search runs at most
\* (5000 - baseSpacing) / 10 passes (read as 1 where that is less than the
\* one pass every search runs).
C2_PassesWithinClaimedBound ==
    (variant = "general" /\ spacing_m <= 5000)
        => PassesRun <= (IF 5000 - spacing_m < 10 THEN 1 ELSE (5000 - spacing_m) \div 10)

\* C2 (amended): with baseSpacing <= 5000 the search of process_logs ends after
\* at most floor((5000 - baseSpacing) / 10) + 2 passes: the passes at
\* baseSpacing, baseSpacing + 10, ... up to and including the first spacing
\* above 5000.
C2_PassesWithinBound ==
    (variant = "general" /\ spacing_m <= 5000)
        => /\ PassesRun <= (5000 - spacing_m) \div 10 + 2
           /\ pc = "search" => PassesRun <= (5000 - spacing_m) \div 10 + 1

\* C2 witness: a search that never fits max_wps ends, having run exactly
\* floor((5000 - baseSpacing) / 10) + 2 passes.
C2_Witness ==
    /\ pc = "done" /\ variant = "general" /\ spacing_m <= 5000
    /\ Len(waypoints) > max_wps
    /\ PassesRun = (5000 - spacing_m) \div 10 + 2

\* C8: every waypoint of every pass has lat in [-90, 90] and lon in
\* [-180, 180] degrees (in metres of arc), and none is at lat = 0, lon = 0.
C8_WaypointsInRange ==
    \A k \in 1..Len(waypoints) :
        /\ -10007543 <= waypoints[k][1] /\ waypoints[k][1] <= 10007543
        /\ -20015086 <= waypoints[k][2] /\ waypoints[k][2] <= 20015086
        /\ ~(waypoints[k][1] = 0 /\ waypoints[k][2] = 0)

\* A row whose position cell spells two numbers.
NumericPosition(i) ==
    /\ Len(df[i].GPS) = 2
    /\ df[i].GPS[1].form = "number" /\ df[i].GPS[2].form = "number"

\* C8 witness: the log opens with a position at latitude 200 and holds one at
\* 0 0, and the pass kept waypoints from the rows around them.
C8_Witness ==
    /\ pc = "scanned" /\ Len(df) = 3 /\ waypoints # <<>>
    /\ NumericPosition(1) /\ df[1].GPS[1].v > 10007543
    /\ \E i \in Rows : NumericPosition(i) /\ df[i].GPS[1].v = 0 /\ df[i].GPS[2].v = 0

RemoveAt(rows, i) == SubSeq(rows, 1, i - 1) \o SubSeq(rows, i + 1, Len(rows))

\* What index answers for the waypoints process_logs returned.
ResponseFor(v, wps) ==
    IF v = "general" /\ wps = <<>> THEN Flash("No valid GPS telemetry found")
    ELSE IF Serializable(wps) THEN File(MissionItems(wps, IF v = "general" THEN "0" ELSE "1"))
    ELSE IF v = "general" THEN Flash("Error Processing File")
    ELSE [kind |-> "text", msg |-> "Error", items |-> <<>>]

\* A position that is missing, unparsable or out of range.
BadPosition(i) ==
    \/ Len(df[i].GPS) < 2
    \/ ~NumericPosition(i)
    \/ IF variant = "general"
       THEN ~GlobalCoordsOk(Float(df[i].GPS[1]), Float(df[i].GPS[2]))
       ELSE ~BoxCoordsOk(Float(df[i].GPS[1]), Float(df[i].GPS[2]))

\* An altitude cell that is empty (NaN) or not a number, with no manual altitude.
BadAltitude(i) == manual_alt_m = None /\ df[i].Alt.form # "number"

Malformed(i) == BadPosition(i) \/ BadAltitude(i)

\* C3: a malformed record is skipped: every pass keeps exactly the waypoints
\* it keeps for the log without that record, and the conversion answers
\* exactly what it answers for the log without it.
C3_MalformedRecordSkipped ==
    \A i \in Rows :
        (Malformed(i) /\ pc \in {"scanned", "done"}) =>
            LET others == DecimationPass(variant, RemoveAt(df, i), pass_spacing,
                                         manual_alt_m).waypoints
            IN /\ waypoints = others
               /\ pc = "done" => response = ResponseFor(variant, others)

\* C4: with no usable sample the decimator returns the empty list after one
\* pass and the caller reports that no valid telemetry was found; a mission
\* is serialized only from a non-empty list of waypoints.
C4_NoTelemetryNoMission ==
    /\ (UsableRows = {} /\ pc = "done") =>
          /\ PassesRun = 1 /\ waypoints = <<>>
          /\ response = Flash("No valid GPS telemetry found")
    /\ response.kind = "file" => waypoints # <<>>

Max(S) == CHOOSE x \in S : \A y \in S : y <= x
Min(S) == CHOOSE x \in S : \A y \in S : x <= y

\* What the parser makes of every row, and the rows it does not skip.
Samples == [i \in Rows |-> Parsed(i)]
Usable(S) == { i \in DOMAIN S : S[i].ok }

KeptRows == { kept[k] : k \in 1..Len(kept) }
LastBefore(K, i) == Max({ k \in K : k < i })

\* Metres between the positions of rows i and j.
Dist(S, i, j) == Haversine(S[i].lat, S[i].lon, S[j].lat, S[j].lon)

\* The jump ceiling the specification names for each revision.
ClaimedCeiling == IF variant = "general" THEN 500000 ELSE 50000

\* A usable row further from the first usable row than the ceiling.
JumpRow(S, first, i) == S[i].ok /\ Dist(S, first, i) > ClaimedCeiling

\* Waypoints kept by a pass over the log at spacing s.
Count(s) == Len(DecimationPass(variant, df, s, manual_alt_m).waypoints)

ProbeSpacings == { 0, 60, 300, 410, 4960, 5000, 5010, 9000 }

Monotone ==
    \A s \in ProbeSpacings :
        /\ s > pass_spacing => Count(s) <= Len(waypoints)
        /\ s < pass_spacing => Count(s) >= Len(waypoints)

\* The usable samples advance in one direction along the track.
OneWay ==
    LET S == Samples
        U == Usable(S)
    IN \/ \A i, j \in U : i < j => S[i].lat <= S[j].lat
       \/ \A i, j \in U : i < j => S[i].lat >= S[j].lat

\* C5 (as claimed): for every log, also one that doubles back, a pass at a
\* larger spacing keeps no more waypoints than a pass at a smaller one.
C5_LargerSpacingKeepsNoMore == pc = "scanned" => Monotone

\* C5 (amended): for a log whose usable samples advance in one direction along
\* a straight track, a pass at a larger spacing keeps no more waypoints than a
\* pass at a smaller one.
C5_LargerSpacingKeepsNoMoreOneWay == (pc = "scanned" /\ OneWay) => Monotone

\* C5 witness: a one-way track of which a wider pass keeps fewer waypoints,
\* though more than the first one.
C5_Witness ==
    /\ pc = "scanned" /\ Len(waypoints) >= 3 /\ OneWay
    /\ \E s \in ProbeSpacings :
          s > pass_spacing /\ Count(s) < Len(waypoints) /\ Count(s) >= 2

\* C6: when the search ends past the ceiling with more than max_wps waypoints,
\* no pass of the search kept fewer waypoints than the list returned.
C6_ReturnsMinimalPass ==
    (pc = "returned" /\ variant = "general"
        /\ pass_spacing > 5000 /\ Len(waypoints) > max_wps)
        => \A k \in 1..Len(pass_counts) : pass_counts[k] >= Len(waypoints)

\* Initial bearing from row i to row j, in degrees: on one meridian it is
\* 0 (north) or 180 (south).
Bearing(S, i, j) == IF S[j].lat < S[i].lat THEN 180 ELSE 0

\* The absolute angular difference of two bearings, normalized to [0, 180].
TurnAngle(b1, b2) == IF Abs(b1 - b2) > 180 THEN 360 - Abs(b1 - b2) ELSE Abs(b1 - b2)

\* C7: where the bearing from the last kept point to a sample turns by more
\* than 10 degrees from the bearing of the last kept leg, the sample is kept
\* iff its distance is at least spacing * max(0.3, 1 - turn / 90).
C7_TurnShrinksSpacing ==
    (pc = "scanned" /\ Len(kept) >= 2) =>
        LET S == Samples
            K == KeptRows
        IN \A i \in Usable(S) :
              (i > kept[2] /\ ~JumpRow(S, kept[1], i)) =>
                  LET last == LastBefore(K, i)
                      turn == TurnAngle(Bearing(S, LastBefore(K, last), last),
                                        Bearing(S, last, i))
                      shrink == IF 90 - turn > 27 THEN 90 - turn ELSE 27
                  IN turn > 10 =>
                        (i \in K <=> 90 * Dist(S, last, i) >= pass_spacing * shrink)

\* C9: a pass keeps the first usable sample, and after it a sample (one that
\* is no sensor jump) iff it is at least spacing from the last kept waypoint;
\* the waypoints are the kept samples in log order, each at least spacing
\* from the one before.
C9_KeptIffSpacingFromLastKept ==
    pc = "scanned" =>
        LET S == Samples
            U == Usable(S)
            K == KeptRows
        IN /\ Len(waypoints) = Len(kept)
           /\ \A k \in 1..Len(kept) :
                 /\ kept[k] \in U
                 /\ waypoints[k] = << S[kept[k]].lat, S[kept[k]].lon, S[kept[k]].alt >>
                 /\ k > 1 => kept[k - 1] < kept[k]
                 /\ k > 1 => Dist(S, kept[k - 1], kept[k]) >= pass_spacing
           /\ U # {} =>
                 /\ kept # <<>> /\ kept[1] = Min(U)
                 /\ \A i \in U :
                       (i > kept[1] /\ ~JumpRow(S, Min(U), i)) =>
                           (i \in K <=> Dist(S, LastBefore(K, i), i) >= pass_spacing)

\* C9 witness: samples at 0 m, 50 m and 400 m at spacing 300 m; the pass kept
\* the first and the third.
C9_Witness ==
    /\ pc = "scanned" /\ pass_spacing = 300
    /\ df = << Fix(0, 1205), Fix(50, 1210), Fix(400, 1342) >>
    /\ kept = << 1, 3 >>

\* The log without the rows that are sensor jumps seen from the sample first.
WithoutJumps(first) ==
    LET NoJump(row) ==
            LET s == ParseRow(variant, row, manual_alt_m)
            IN ~(s.ok /\ Haversine(first.lat, first.lon, s.lat, s.lon) > ClaimedCeiling)
    IN SelectSeq(df, NoJump)

\* C10: no sensor jump is kept, every waypoint lies within the ceiling of the
\* first one, and the pass keeps exactly what it keeps for the log without
\* its sensor jumps.
C10_JumpsTreatedAsAbsent ==
    pc = "scanned" =>
        LET S == Samples
            U == Usable(S)
        IN U # {} =>
              /\ \A k \in 1..Len(kept) : ~JumpRow(S, Min(U), kept[k])
              /\ \A k \in 1..Len(waypoints) :
                    Haversine(waypoints[1][1], waypoints[1][2],
                              waypoints[k][1], waypoints[k][2]) <= ClaimedCeiling
              /\ waypoints = DecimationPass(variant, WithoutJumps(S[Min(U)]), pass_spacing,
                                            manual_alt_m).waypoints

\* C10 witness: a sensor jump after the first waypoint, and a later sample
\* that is not kept though it is at least spacing from the jump.
C10_Witness ==
    /\ pc = "scanned" /\ kept # <<>>
    /\ LET S == Samples
       IN \E i \in Rows :
             /\ JumpRow(S, kept[1], i)
             /\ \E j \in Usable(S) : /\ j > i /\ ~JumpRow(S, kept[1], j)
                                     /\ j \notin KeptRows
                                     /\ Dist(S, i, j) >= pass_spacing

====
